---- MODULE Spec2Model ----
(***************************************************************************)
(* A model of ToolShedEmailParsing.py: the text normalizer polish, the     *)
(* notification decoder ToolShedRepo.parseEmail, the catalog lookup        *)
(* ToolShedRepo.getToolShedInfo, the classifier isNew/isUpdate/isPasse and *)
(* the main loop that aggregates repos and prints the markdown report.     *)
(*                                                                         *)
(* Text is a sequence of chunks.  A chunk is a one-character string, the   *)
(* line end "\r\n", or a piece of text the code never looks inside (a      *)
(* word, an address, a host name, a revision).  Python's str operations    *)
(* become the corresponding operations on sequences of chunks.             *)
(***************************************************************************)
EXTENDS Integers, Sequences, FiniteSets, TLC

VARIABLES
    \* main program (module level state of the script)
    stripplanemocommittext, \* args.args.stripplanemocommittext
    pc,                     \* position of the script: "loop", "done", "crashed"
    fetched,                \* the messages fetched so far (indexes into Messages), in fetch order
    outcomes,               \* per fetched message: the branch taken (or the exception) and the object
    repo,                   \* the ToolShedRepo object of the last pass, as far as built
    newToolRepos,           \* type -> author -> name -> repo
    updates,                \* type -> author -> name -> list of repos
    passe,                  \* list of repos
    stdout,                 \* what has been printed
    \* polish called twice on one text
    text, once, twice, polishCalls,
    \* one ToolShedRepo.parseEmail call on one header and body
    decodeArgs, decoded, decodeStage

mainVars == <<stripplanemocommittext, pc, fetched, outcomes, repo, newToolRepos,
              updates, passe, stdout>>
polishVars == <<text, once, twice, polishCalls>>
decodeVars == <<decodeArgs, decoded, decodeStage>>
vars == <<mainVars, polishVars, decodeVars>>

----------------------------------------------------------------------------
\* Bounds of the model.
MaxLen == 4     \* longest text given to polish
MaxLines == 2   \* most change-description lines in a decoded body
MaxMsgs == 3    \* most messages the search returns

----------------------------------------------------------------------------
\* Python str operations on sequences of chunks.

\* Characters str.strip() and str.split() treat as white space.
Whitespace == {" ", "\n", "\t", "\r", "\f", "\r\n"}

RECURSIVE lstrip(_)
lstrip(s) ==
    IF s /= <<>> /\ Head(s) \in Whitespace THEN lstrip(Tail(s)) ELSE s

RECURSIVE rstrip(_)
rstrip(s) ==
    IF s /= <<>> /\ s[Len(s)] \in Whitespace
    THEN rstrip(SubSeq(s, 1, Len(s) - 1))
    ELSE s

\* text.strip()
strip(s) == rstrip(lstrip(s))

\* text.replace(old, new) for a one-character old
RECURSIVE replace(_, _, _)
replace(s, old, new) ==
    IF s = <<>> THEN <<>>
    ELSE (IF Head(s) = old THEN new ELSE <<Head(s)>>) \o replace(Tail(s), old, new)

\* text.split(sep) for a one-chunk sep: the pieces between separators,
\* empty pieces included
RECURSIVE split(_, _)
split(s, sep) ==
    IF \A i \in 1..Len(s) : s[i] /= sep
    THEN <<s>>
    ELSE LET k == CHOOSE i \in 1..Len(s) :
                      s[i] = sep /\ \A j \in 1..(i - 1) : s[j] /= sep
         IN  <<SubSeq(s, 1, k - 1)>> \o split(SubSeq(s, k + 1, Len(s)), sep)

\* text.split(): the maximal runs of non white space
RECURSIVE splitWords(_)
splitWords(s) ==
    LET t == lstrip(s)
    IN  IF t = <<>> THEN <<>>
        ELSE LET ends == {i \in 1..Len(t) : t[i] \in Whitespace}
                 k == IF ends = {} THEN Len(t) + 1
                      ELSE CHOOSE i \in ends : \A j \in ends : i <= j
             IN  <<SubSeq(t, 1, k - 1)>> \o splitWords(SubSeq(t, k, Len(t)))

\* sep.join(parts)
RECURSIVE join(_, _)
join(sep, parts) ==
    IF parts = <<>> THEN <<>>
    ELSE IF Len(parts) = 1 THEN parts[1]
    ELSE parts[1] \o sep \o join(sep, Tail(parts))

----------------------------------------------------------------------------
\* polish(text)

\* The list [".", r"\n", " "] of line 53; r"\n" is the two characters
\* backslash and n.
NoPeriodAfter == {<<".">>, <<"\\", "n">>, <<" ">>}

\* A polish without the replacement of line 55.
polishKeepingNewlines(t) ==
    LET stripped == strip(t)
    IN  IF Len(stripped) > 0
           /\ SubSeq(stripped, Len(stripped), Len(stripped)) \notin NoPeriodAfter
        THEN stripped \o <<".">>
        ELSE stripped

\* A polish that adds the period whatever the text ends with.
polishAlwaysPeriod(t) ==
    LET stripped == strip(t)
        ended == IF Len(stripped) > 0 THEN stripped \o <<".">> ELSE stripped
    IN  replace(ended, "\n", <<" ", " ">>)

polish(t) ==
    LET stripped == strip(t)
        ended == IF Len(stripped) > 0
                    /\ SubSeq(stripped, Len(stripped), Len(stripped)) \notin NoPeriodAfter
                 THEN stripped \o <<".">>
                 ELSE stripped
    IN  replace(ended, "\n", <<" ", " ">>)

----------------------------------------------------------------------------
\* Module constants.

TOOLSHED_SENDER == <<"galaxy-no-reply@toolshed.g2.bx.psu.edu">>

\* indexes into the header lines
FROM == 0
SUBJECT == 1

\* indexes into the body lines
LINK_LINE == 1
REVISION_LINE == 3
DESCR_START_LINE == 5

\* Python's seq[i], counted from 0
at(seq, i) == seq[i + 1]

\* Python's text[n:]
from(s, n) == SubSeq(s, n + 1, Len(s))

\* An object with no attribute set.  An object is a function from the names
\* of the attributes assigned so far to their values.
NoAttrs == [a \in {} |-> <<>>]

\* The result of a call: the exception it raised ("" for none) and the object.
Returned(self) == [exc |-> "", self |-> self]
Raised(exc, self) == [exc |-> exc, self |-> self]

----------------------------------------------------------------------------
\* urllib.parse.urlparse(url), for a url with no params, query or fragment:
\* the scheme before the first ":", the netloc between "//" and the next "/",
\* and the path from that "/" on.
urlparse(url) ==
    LET colons == {i \in 1..Len(url) : url[i] = ":"}
        c == IF colons = {} THEN 0 ELSE CHOOSE i \in colons : \A j \in colons : i <= j
        scheme == SubSeq(url, 1, c - 1)
        rest == from(url, c)
        hasNetloc == Len(rest) >= 2 /\ rest[1] = "/" /\ rest[2] = "/"
        afterSlashes == IF hasNetloc THEN from(rest, 2) ELSE rest
        slashes == {i \in 1..Len(afterSlashes) : afterSlashes[i] = "/"}
        p == IF ~hasNetloc THEN 1
             ELSE IF slashes = {} THEN Len(afterSlashes) + 1
             ELSE CHOOSE i \in slashes : \A j \in slashes : i <= j
    IN  [scheme |-> scheme,
         netloc |-> SubSeq(afterSlashes, 1, p - 1),
         path |-> SubSeq(afterSlashes, p, Len(afterSlashes))]

\* text.rstrip("/")
RECURSIVE rstripSlash(_)
rstripSlash(s) ==
    IF s /= <<>> /\ s[Len(s)] = "/" THEN rstripSlash(SubSeq(s, 1, Len(s) - 1)) ELSE s

\* os.path.split(p): <<head, tail>>, cut after the last "/"
pathSplit(p) ==
    LET slashes == {i \in 1..Len(p) : p[i] = "/"}
        i == IF slashes = {} THEN 0 ELSE CHOOSE k \in slashes : \A j \in slashes : j <= k
        head == SubSeq(p, 1, i)
        tail == from(p, i)
    IN  <<IF head /= <<>> /\ (\E k \in 1..Len(head) : head[k] /= "/")
          THEN rstripSlash(head) ELSE head,
          tail>>

----------------------------------------------------------------------------
\* ToolShedRepo.parseEmail

\* The prefixes that end the change description (line 146).
DescriptionEnd == {<<"Uploaded", " ", "by">>, <<"Changed", " ", "by">>}

\* The test of lines 152-153 without the option.
isPlanemoUploadIgnoringOption(lineParts, stripPlanemo) ==
    /\ at(lineParts, 0) = <<"planemo">>
    /\ Len(lineParts) > 1
    /\ at(lineParts, 1) = <<"upload">>

\* Lines 152-153: args.args.stripplanemocommittext and lineParts[0] == "planemo"
\* and lineParts[1] == "upload", where lineParts[1] exists.
isPlanemoUpload(lineParts, stripPlanemo) ==
    /\ stripPlanemo
    /\ at(lineParts, 0) = <<"planemo">>
    /\ Len(lineParts) > 1
    /\ at(lineParts, 1) = <<"upload">>

\* Lines 147-158: one pass of the while loop over the line cur, with
\* self.commit = commit.  lineParts[1] of a line that is "planemo" alone
\* raises IndexError.
commitStep(cur, commit, stripPlanemo) ==
    LET lineParts == split(cur, " ")
    IN  IF at(lineParts, 0) = <<"Uploaded">>
        THEN [exc |-> "",
              commit |-> polish(IF Len(lineParts) > 1
                                THEN commit \o join(<<" ">>, from(lineParts, 1))
                                ELSE commit)]
        ELSE IF stripPlanemo /\ at(lineParts, 0) = <<"planemo">> /\ Len(lineParts) < 2
        THEN [exc |-> "IndexError", commit |-> commit]
        ELSE IF isPlanemoUpload(lineParts, stripPlanemo)
        THEN [exc |-> "", commit |-> polish(commit)]
        ELSE [exc |-> "", commit |-> polish(commit \o cur)]

\* Lines 146-159: the while loop, from body[line] on, with self.commit = commit.
\* body[line] past the end of the body raises IndexError.
RECURSIVE commitLoop(_, _, _, _)
commitLoop(body, line, commit, stripPlanemo) ==
    IF line >= Len(body) THEN [exc |-> "IndexError", commit |-> commit]
    ELSE IF at(split(at(body, line), ":"), 0) \in DescriptionEnd
    THEN [exc |-> "", commit |-> commit]
    ELSE LET step == commitStep(at(body, line), commit, stripPlanemo)
         IN  IF step.exc /= "" THEN step
             ELSE commitLoop(body, line + 1, step.commit, stripPlanemo)

\* parseEmail(self, headerTxt, bodyTxt) on a new object; stripPlanemo is
\* args.args.stripplanemocommittext.  headerTxt and bodyTxt are the decoded
\* texts headerTxt[0][1] and bodyTxt[0][1].
parseEmail(headerTxt, bodyTxt, stripPlanemo) ==
    LET _headers == split(headerTxt, "\r\n")
    IN
    IF Len(_headers) <= SUBJECT
    THEN Raised("IndexError", [sender |-> from(at(_headers, FROM), 6)])
    ELSE
    LET s1 == [sender |-> from(at(_headers, FROM), 6),
               subject |-> from(at(_headers, SUBJECT), 9)]
    IN
    IF s1.sender /= TOOLSHED_SENDER THEN Returned(s1)
    ELSE
    LET body == split(bodyTxt, "\r\n")
        s2 == s1 @@ [body |-> body]
    IN
    IF Len(body) <= LINK_LINE \/ Len(splitWords(at(body, LINK_LINE))) <= 2
    THEN Raised("IndexError", s2)
    ELSE
    LET url == at(splitWords(at(body, LINK_LINE)), 2)
        _urlParts == urlparse(url)
        _authorPath == pathSplit(_urlParts.path)[1]
        name == pathSplit(_urlParts.path)[2]
        authorUrl == _urlParts.scheme \o <<":", "/", "/">> \o _urlParts.netloc
                     \o _authorPath
        authorParts == split(authorUrl, "/")
        s3 == s2 @@ [url |-> url, name |-> name, authorUrl |-> authorUrl,
                     author |-> authorParts[Len(authorParts)]]
    IN
    IF Len(body) <= REVISION_LINE \/ Len(split(at(body, REVISION_LINE), ":")) <= 2
    THEN Raised("IndexError", s3)
    ELSE
    LET s4 == s3 @@ [revision |-> at(split(at(body, REVISION_LINE), ":"), 2)]
        loop == commitLoop(body, DESCR_START_LINE, <<>>, stripPlanemo)
        s5 == s4 @@ [commit |-> loop.commit]
    IN
    IF loop.exc /= "" THEN Raised(loop.exc, s5) ELSE Returned(s5)

----------------------------------------------------------------------------
\* ToolShedRepo.getToolShedInfo

\* A passe flag that forgets the malicious mark.
passeOfForgettingMalicious(_tsData) ==
    at(_tsData, 0)["deleted"] \/ at(_tsData, 0)["deprecated"]

\* Line 176
passeOf(_tsData) ==
    at(_tsData, 0)["deleted"] \/ at(_tsData, 0)["deprecated"]
        \/ at(_tsData, 1)["malicious"]

\* A lookup that hides a failure behind the default fields.
getToolShedInfoDefaulting(self, response) ==
    IF {"name", "author", "revision"} \subseteq DOMAIN self
    THEN Returned(self @@ [passe |-> FALSE, synopsis |-> <<>>, description |-> <<>>,
                           type |-> <<"Unknown">>])
    ELSE Raised("AttributeError", self)

\* getToolShedInfo(self).  response is what urlopen(...).read() and json.loads
\* give for the URL of this repo: failure names the exception they raise ("" for
\* none) and data is _tsData, a list of dicts.
getToolShedInfo(self, response) ==
    IF ~({"name", "author", "revision"} \subseteq DOMAIN self)
    THEN Raised("AttributeError", self)
    ELSE IF response.failure /= "" THEN Raised(response.failure, self)
    ELSE
    LET _tsData == response.data
    IN
    IF Len(_tsData) < 2 THEN Raised("IndexError", self)
    ELSE IF ~({"deleted", "deprecated"} \subseteq DOMAIN at(_tsData, 0))
            \/ "malicious" \notin DOMAIN at(_tsData, 1)
    THEN Raised("KeyError", self)
    ELSE
    Returned(self @@
        [passe |-> passeOf(_tsData),
         synopsis |-> IF "description" \in DOMAIN at(_tsData, 0)
                      THEN polish(at(_tsData, 0)["description"]) ELSE <<>>,
         description |-> IF "long_description" \in DOMAIN at(_tsData, 0)
                         THEN polish(at(_tsData, 0)["long_description"]) ELSE <<>>,
         type |-> IF "type" \in DOMAIN at(_tsData, 0)
                  THEN at(_tsData, 0)["type"] ELSE <<"Unknown">>])

\* Line 73, after parseEmail gave parsed: an exception of parseEmail leaves
\* __init__ at once.
thenGetToolShedInfo(parsed, response) ==
    IF parsed.exc /= "" THEN parsed ELSE getToolShedInfo(parsed.self, response)

\* ToolShedRepo(headerTxt, bodyTxt): parseEmail, then getToolShedInfo.
ToolShedRepo(headerTxt, bodyTxt, response, stripPlanemo) ==
    thenGetToolShedInfo(parseEmail(headerTxt, bodyTxt, stripPlanemo), response)

----------------------------------------------------------------------------
\* The classifier.

\* subject.split()[3] raises IndexError when the subject has fewer than 4 words.
subjectTooShort(self) == Len(splitWords(self.subject)) <= 3

\* An isUpdate that takes whatever is not "alert" for an update.
isUpdateUnlessAlert(self) == at(splitWords(self.subject), 3) /= <<"alert">>

isUpdate(self) == at(splitWords(self.subject), 3) = <<"update">>

isNew(self) == at(splitWords(self.subject), 3) = <<"alert">>

isPasse(self) == self.passe

----------------------------------------------------------------------------
\* Python dicts: the list of the <<key, value>> pairs in insertion order.

has(d, k) == \E i \in 1..Len(d) : d[i][1] = k

get(d, k) == d[CHOOSE i \in 1..Len(d) : d[i][1] = k][2]

put(d, k, v) ==
    IF has(d, k)
    THEN [d EXCEPT ![CHOOSE i \in 1..Len(d) : d[i][1] = k] = <<k, v>>]
    ELSE Append(d, <<k, v>>)

\* Lines 279-285 with the test of line 284 left out.
addNewOverwriting(d, r) ==
    LET d1 == IF ~has(d, r.type) THEN put(d, r.type, <<>>) ELSE d
        authors == get(d1, r.type)
        a1 == IF ~has(authors, r.author) THEN put(authors, r.author, <<>>) ELSE authors
    IN  put(d1, r.type, put(a1, r.author, put(get(a1, r.author), r.name, r)))

\* Lines 279-285: the new repo r into newToolRepos
addNew(d, r) ==
    LET d1 == IF ~has(d, r.type) THEN put(d, r.type, <<>>) ELSE d
        authors == get(d1, r.type)
        a1 == IF ~has(authors, r.author) THEN put(authors, r.author, <<>>) ELSE authors
        names == get(a1, r.author)
        n1 == IF ~has(names, r.name) THEN put(names, r.name, r) ELSE names
    IN  put(d1, r.type, put(a1, r.author, n1))

\* Lines 287-293 with the new update put first.
addUpdateInFront(d, r) ==
    LET d1 == IF ~has(d, r.type) THEN put(d, r.type, <<>>) ELSE d
        authors == get(d1, r.type)
        a1 == IF ~has(authors, r.author) THEN put(authors, r.author, <<>>) ELSE authors
        names == get(a1, r.author)
        n1 == IF ~has(names, r.name) THEN put(names, r.name, <<>>) ELSE names
    IN  put(d1, r.type, put(a1, r.author, put(n1, r.name, <<r>> \o get(n1, r.name))))

\* Lines 287-293: the update r into updates
addUpdate(d, r) ==
    LET d1 == IF ~has(d, r.type) THEN put(d, r.type, <<>>) ELSE d
        authors == get(d1, r.type)
        a1 == IF ~has(authors, r.author) THEN put(authors, r.author, <<>>) ELSE authors
        names == get(a1, r.author)
        n1 == IF ~has(names, r.name) THEN put(names, r.name, <<>>) ELSE names
    IN  put(d1, r.type, put(a1, r.author, put(n1, r.name, Append(get(n1, r.name), r))))

----------------------------------------------------------------------------
\* The report, lines 300-326: the lines printed, in order.

RECURSIVE flatten(_)
flatten(ss) == IF ss = <<>> THEN <<>> ELSE Head(ss) \o flatten(Tail(ss))

authorHeading(r) ==
    <<"* *From [">> \o r.author \o <<"](">> \o r.authorUrl \o <<"):*">>

\* Lines 304-310: one author's new repos
newToolLines(authorRepos) ==
    flatten([i \in 1..Len(authorRepos) |->
        LET r == authorRepos[i][2]
        IN  (IF i = 1 THEN <<authorHeading(r)>> ELSE <<>>)
            \o << <<"   * [">> \o r.name \o <<"](">> \o r.url \o <<"): ">> \o r.commit
                  \o <<" ">> \o r.synopsis \o <<" ">> \o r.description >>])

updateBullet(r) ==
    <<"   * [">> \o r.name \o <<"](">> \o r.url \o <<"): ">> \o r.commit

\* Lines 315-322: one author's updates; the heading comes with the first update
updateLines(authorsRepos) ==
    LET all == flatten([i \in 1..Len(authorsRepos) |-> authorsRepos[i][2]])
    IN  flatten([i \in 1..Len(all) |->
            (IF i = 1 THEN <<authorHeading(all[i])>> ELSE <<>>)
            \o <<updateBullet(all[i])>>])

\* Lines 302-310 and 313-322: the types of one section and, under each, the
\* lines of each author
sectionLines(d, ofUpdates) ==
    flatten([t \in 1..Len(d) |->
        << <<"\n", "#### ">> \o d[t][1] >>
        \o flatten([a \in 1..Len(d[t][2]) |->
                IF ofUpdates THEN updateLines(d[t][2][a][2])
                ELSE newToolLines(d[t][2][a][2])])])

reportLines(new, upd, pas) ==
    << <<"### New Tools">> >>
    \o sectionLines(new, FALSE)
    \o << <<"\n", "\n", "### Select Updates ">> >>
    \o sectionLines(upd, TRUE)
    \o << <<"\n", "\n", "### Passe">> >>
    \o [i \in 1..Len(pas) |-> updateBullet(pas[i])]

\* The three section titles.
SectionTitles ==
    {<<"### New Tools">>, <<"\n", "\n", "### Select Updates ">>, <<"\n", "\n", "### Passe">>}

----------------------------------------------------------------------------
\* The messages of the mailbox and the answers of the catalog.

headerText(sender, subject) ==
    <<"F", "r", "o", "m", ":", " ">> \o sender \o <<"\r\n">>
    \o <<"S", "u", "b", "j", "e", "c", "t", ":", " ">> \o subject \o <<"\r\n", "\r\n">>

\* The body of the docstring of parseEmail: descr are the lines of the change
\* description, ender the lines from "Uploaded by" or "Changed by" on.
bodyText(author, name, revision, descr, ender) ==
    join(<<"\r\n">>,
         << <<>>,
            <<"Sharable", " ", "link", ":", " ", " ", "https", ":", "/", "/",
              "toolshed.g2.bx.psu.edu", "/", "view", "/", author, "/", name>>,
            <<"Repository", " ", "name", ":", " ", " ", name>>,
            <<"Revision", ":", " ", " ", "0", ":", revision>>,
            <<"Change", " ", "description", ":">> >>
         \o descr \o ender
         \o << <<>>, <<"-----">>, <<>> >>)

UploadedBy(author) ==
    << <<"Uploaded", " ", "by", ":", " ", " ", author>>,
       <<"Date", " ", "content", " ", "uploaded", ":", " ", "2016-11-06">> >>

ChangedBy(author) ==
    << <<"Changed", " ", "by", ":", " ", " ", author>>,
       <<"Date", " ", "of", " ", "change", ":", " ", "2016-11-07">> >>

NewSubject == <<"Galaxy", " ", "tool", " ", "shed", " ", "alert", " ", "for", " ",
                "new", " ", "repository">>
UpdateSubject == <<"Galaxy", " ", "tool", " ", "shed", " ", "update", " ", "alert">>
OtherSubject == <<"Galaxy", " ", "tool", " ", "shed", " ", "repository", " ",
                  "update", " ", "alert">>
ShortSubject == <<"Out", " ", "of", " ", "office">>

NewBody(author, name) ==
    bodyText(author, name, "babd6d75a0b0", << <<"Uploaded">>, <<>> >>, UploadedBy(author))

UpdateBody(author, name) ==
    bodyText(author, name, "3034ce97dd33",
             << <<"planemo", " ", "upload", " ", "v2">>, <<"Fixed", " ", "a", " ", "pipe">>,
                <<>> >>,
             ChangedBy(author))

\* A body cut before the "Changed by" line.
CutBody(author, name) ==
    bodyText(author, name, "3034ce97dd33", << <<"Fixed">> >>, <<>>)

answer(deleted, deprecated, malicious, more) ==
    [failure |-> "",
     data |-> << [deleted |-> deleted, deprecated |-> deprecated] @@ more,
                 [malicious |-> malicious] >>]

failure(exc) == [failure |-> exc, data |-> <<>>]

Typed == [description |-> <<"Fitness", "\n", "tools">>,
          long_description |-> <<"Computes", " ", "fitness", ".">>,
          type |-> <<"unrestricted">>]
Untyped == [description |-> <<"A", " ", "suite">>]

message(sender, subject, body, response) ==
    [header |-> headerText(sender, subject), body |-> body, response |-> response]

\* author, name and catalog entry of the repos the messages are about
Repos == << <<"alice", "fitness", Typed>>, <<"alice", "blast", Typed>>,
            <<"bob", "fitness", Untyped>> >>

Unflagged ==
    [i \in 1..Len(Repos) |->
        message(TOOLSHED_SENDER, NewSubject, NewBody(Repos[i][1], Repos[i][2]),
                answer(FALSE, FALSE, FALSE, Repos[i][3]))]
    \o [i \in 1..Len(Repos) |->
        message(TOOLSHED_SENDER, UpdateSubject, UpdateBody(Repos[i][1], Repos[i][2]),
                answer(FALSE, FALSE, FALSE, Repos[i][3]))]
    \o << message(TOOLSHED_SENDER, OtherSubject, UpdateBody("alice", "fitness"),
                  answer(FALSE, FALSE, FALSE, Typed)),
          message(TOOLSHED_SENDER, ShortSubject, UpdateBody("alice", "fitness"),
                  answer(FALSE, FALSE, FALSE, Typed)) >>

Flagged ==
    << message(TOOLSHED_SENDER, NewSubject, NewBody("alice", "fitness"),
               answer(TRUE, FALSE, FALSE, Typed)),
       message(TOOLSHED_SENDER, UpdateSubject, UpdateBody("alice", "fitness"),
               answer(FALSE, TRUE, FALSE, Typed)),
       message(TOOLSHED_SENDER, NewSubject, NewBody("alice", "blast"),
               answer(FALSE, FALSE, TRUE, Typed)),
       message(TOOLSHED_SENDER, ShortSubject, UpdateBody("bob", "fitness"),
               answer(TRUE, FALSE, FALSE, Untyped)) >>

Undecodable ==
    << message(<<"someone@example.org">>, NewSubject, NewBody("alice", "fitness"),
               answer(FALSE, FALSE, FALSE, Typed)),
       message(TOOLSHED_SENDER, UpdateSubject, CutBody("alice", "fitness"),
               answer(FALSE, FALSE, FALSE, Typed)) >>

LookupFails ==
    << message(TOOLSHED_SENDER, NewSubject, NewBody("alice", "fitness"),
               failure("URLError")),
       message(TOOLSHED_SENDER, UpdateSubject, UpdateBody("alice", "fitness"),
               failure("JSONDecodeError")) >>

\* The different messages a search can return.  A mailbox may hold the same
\* message several times (under different message numbers).
Messages == Unflagged \o Flagged \o Undecodable \o LookupFails

\* ToolShedRepo(header, body) for each message and each value of the option,
\* computed once.
construct(m, stripPlanemo) == ToolShedRepo(m.header, m.body, m.response, stripPlanemo)

Constructed ==
    [s \in BOOLEAN |-> [k \in 1..Len(Messages) |-> construct(Messages[k], s)]]

Exceptions == {"IndexError", "AttributeError", "KeyError", "URLError", "JSONDecodeError"}

----------------------------------------------------------------------------
\* The script: lines 243-247 (Init), the for loop of lines 270-296
\* (ProcessMessage, one pass) and the report of lines 300-329 (Report).

polishIdle == text = <<>> /\ once = <<>> /\ twice = <<>> /\ polishCalls = -1
decodeIdle == decodeArgs = <<>> /\ decoded = <<>> /\ decodeStage = "idle"
mainIdle ==
    /\ stripplanemocommittext = FALSE /\ pc = "idle" /\ fetched = <<>>
    /\ outcomes = <<>> /\ repo = NoAttrs /\ newToolRepos = <<>> /\ updates = <<>>
    /\ passe = <<>> /\ stdout = <<>>

Init ==
    /\ stripplanemocommittext \in BOOLEAN
    /\ pc = "loop"
    /\ fetched = <<>>
    /\ outcomes = <<>>
    /\ repo = NoAttrs
    /\ newToolRepos = <<>>
    /\ updates = <<>>
    /\ passe = <<>>
    /\ stdout = <<>>
    /\ polishIdle /\ decodeIdle

\* Lines 276-296: which branch of the chain the repo r takes, or the exception
\* raised on the way (built is what the constructor gave).
branchOf(built) ==
    IF built.exc /= "" THEN built.exc
    ELSE IF isPasse(built.self) THEN "passe"
    ELSE IF subjectTooShort(built.self) THEN "IndexError"
    ELSE IF isNew(built.self) THEN "new"
    ELSE IF isUpdate(built.self) THEN "update"
    ELSE "else"

\* Lines 276-296: the repo r, which took the branch branch, is stored or
\* reported; header is the header of its message, Messages[k].
loopBody(k, header, r, branch) ==
    /\ fetched' = Append(fetched, k)
    /\ repo' = r
    /\ outcomes' = Append(outcomes, [branch |-> branch, repo |-> r])
    /\ pc' = IF branch \in Exceptions THEN "crashed" ELSE "loop"
    /\ passe' = IF branch = "passe" THEN Append(passe, r) ELSE passe
    /\ newToolRepos' = IF branch = "new" THEN addNew(newToolRepos, r) ELSE newToolRepos
    /\ updates' = IF branch = "update" THEN addUpdate(updates, r) ELSE updates
    /\ stdout' = IF branch = "else"
                 THEN stdout \o << <<"Not a tool shed repo:">>, header >>
                 ELSE stdout

\* Lines 271-296 for the message Messages[k], from which the constructor gave
\* built.  msgNum stands for the identity of the object.
loopPass(k, m, built) ==
    loopBody(k, m.header, built.self @@ [msgNum |-> Len(fetched) + 1], branchOf(built))

\* One pass of the for loop over the next message of the search result, which
\* is Messages[k].
ProcessMessage ==
    /\ pc = "loop"
    /\ Len(fetched) < MaxMsgs
    /\ \E k \in DOMAIN Constructed[stripplanemocommittext] :
        loopPass(k, Messages[k], Constructed[stripplanemocommittext][k])
    /\ UNCHANGED <<stripplanemocommittext, polishVars, decodeVars>>

\* The search result is exhausted: the report is printed and the mailbox closed.
Report ==
    /\ pc = "loop"
    /\ pc' = "done"
    /\ stdout' = stdout \o reportLines(newToolRepos, updates, passe)
    /\ UNCHANGED <<stripplanemocommittext, fetched, outcomes, repo, newToolRepos,
                   updates, passe, polishVars, decodeVars>>

Next == ProcessMessage \/ Report

Spec == Init /\ [][Next]_vars

----------------------------------------------------------------------------
\* polish applied to a text, and again to its result.

PolishAlphabet == {"n", "\\", ".", " ", "\n"}

Texts == UNION {[1..n -> PolishAlphabet] : n \in 0..MaxLen}

InitPolish ==
    /\ text \in Texts
    /\ once = <<>>
    /\ twice = <<>>
    /\ polishCalls = 0
    /\ mainIdle /\ decodeIdle

PolishOnce ==
    /\ polishCalls = 0
    /\ once' = polish(text)
    /\ polishCalls' = 1
    /\ UNCHANGED <<text, twice, mainVars, decodeVars>>

PolishAgain ==
    /\ polishCalls = 1
    /\ twice' = polish(once)
    /\ polishCalls' = 2
    /\ UNCHANGED <<text, once, mainVars, decodeVars>>

NextPolish == PolishOnce \/ PolishAgain

SpecPolish == InitPolish /\ [][NextPolish]_vars

----------------------------------------------------------------------------
\* One call of parseEmail on a header and a body whose change description is
\* any list of at most MaxLines of the lines below.

DescrLines ==
    { <<>>,
      <<"Uploaded">>,
      <<"Uploaded", " ", "v2">>,
      <<"planemo", " ", "upload">>,
      <<"planemo", " ", "upload", " ", "of", " ", "tool">>,
      <<"planemo", " ", "upload", "ed", " ", "tool">>,
      <<"planemo">>,
      <<" ", "planemo", " ", "upload">>,
      <<"Fixed", " ", "a", " ", "bug", ".">>,
      <<"Added", "\n", "tests", " ">> }

Descriptions == UNION {[1..n -> DescrLines] : n \in 0..MaxLines}

Enders == {UploadedBy("alice"), ChangedBy("alice"), <<>>}

InitDecode ==
    /\ decodeArgs \in [sender : {TOOLSHED_SENDER, <<"someone@example.org">>},
                       descr : Descriptions,
                       ender : Enders,
                       stripPlanemo : BOOLEAN]
    /\ decoded = <<>>
    /\ decodeStage = "fetched"
    /\ mainIdle /\ polishIdle

\* The header and body texts of decodeArgs with the change description descr.
decodeHeader == headerText(decodeArgs.sender, UpdateSubject)
decodeBody(descr) == bodyText("alice", "fitness", "3034ce97dd33", descr, decodeArgs.ender)

Decode ==
    /\ decodeStage = "fetched"
    /\ decoded' = parseEmail(decodeHeader, decodeBody(decodeArgs.descr),
                             decodeArgs.stripPlanemo)
    /\ decodeStage' = "decoded"
    /\ UNCHANGED <<decodeArgs, mainVars, polishVars>>

NextDecode == Decode

SpecDecode == InitDecode /\ [][NextDecode]_vars

----------------------------------------------------------------------------
\* Properties of polish (under SpecPolish).

\* C8: polish is idempotent: polishing the polished text gives it back.
C8_PolishIdempotent == polishCalls = 2 => twice = once

\* A text with an inner newline and no period has been polished twice.
C8_Witness ==
    /\ polishCalls = 2
    /\ \E i \in 2..(Len(text) - 1) : text[i] = "\n" /\ text[1] = "n" /\ text[Len(text)] = "n"
    /\ once /= text

----------------------------------------------------------------------------
\* Properties of parseEmail (under SpecDecode).

\* parseEmail returned, and the sender was the tool shed's.
DecodedRecord ==
    /\ decodeStage = "decoded"
    /\ decoded.exc = ""
    /\ decoded.self.sender = TOOLSHED_SENDER

\* self.commit after parseEmail on the same header and option, and the body
\* with the change description descr
commitOf(descr) ==
    parseEmail(decodeHeader, decodeBody(descr), decodeArgs.stripPlanemo).self.commit

occursIn(part, whole) ==
    \E i \in 0..(Len(whole) - Len(part)) : SubSeq(whole, i + 1, i + Len(part)) = part

\* C9 as stated: the commit message of every decoded record is set, ends with
\* a period and holds no newline.
C9_CommitEndsWithPeriod ==
    DecodedRecord =>
        /\ "commit" \in DOMAIN decoded.self
        /\ Len(decoded.self.commit) > 0
        /\ decoded.self.commit[Len(decoded.self.commit)] = "."
        /\ \A i \in 1..Len(decoded.self.commit) : decoded.self.commit[i] /= "\n"

\* C9 amended: the commit message of every decoded record is set and
\* normalized: it is empty or ends with a period, holds no newline, and polish
\* leaves it as it is.
C9_CommitNormalized ==
    DecodedRecord =>
        /\ "commit" \in DOMAIN decoded.self
        /\ \/ decoded.self.commit = <<>>
           \/ decoded.self.commit[Len(decoded.self.commit)] = "."
        /\ \A i \in 1..Len(decoded.self.commit) : decoded.self.commit[i] /= "\n"
        /\ polish(decoded.self.commit) = decoded.self.commit

\* A body with two description lines, one with an inner newline, was decoded
\* into a non-empty commit message.
C9_Witness ==
    /\ DecodedRecord
    /\ Len(decodeArgs.descr) = 2
    /\ \E i \in 1..2 : \E j \in 1..Len(decodeArgs.descr[i]) : decodeArgs.descr[i][j] = "\n"
    /\ decoded.self.commit /= <<>>

\* The line begins with the text "planemo upload".
BeginsWithPlanemoUpload(line) ==
    Len(line) >= 3 /\ SubSeq(line, 1, 3) = <<"planemo", " ", "upload">>

NotBeginningWithPlanemoUpload(line) == ~BeginsWithPlanemoUpload(line)

\* The first two of the words of the line, split at single spaces, are
\* "planemo" and "upload".
PlanemoUploadWords(line) ==
    /\ Len(split(line, " ")) >= 2
    /\ split(line, " ")[1] = <<"planemo">>
    /\ split(line, " ")[2] = <<"upload">>

NotPlanemoUploadWords(line) == ~PlanemoUploadWords(line)

\* The line as polish leaves it inside a commit message.
inCommit(line) == replace(strip(line), "\n", <<" ", " ">>)

\* C10 as stated: with the option, the commit message is that of the body
\* without the lines beginning with "planemo upload"; without the option,
\* these lines are in the commit message.
C10_PlanemoPrefixStripped ==
    DecodedRecord =>
        IF decodeArgs.stripPlanemo
        THEN decoded.self.commit
                = commitOf(SelectSeq(decodeArgs.descr, NotBeginningWithPlanemoUpload))
        ELSE \A i \in 1..Len(decodeArgs.descr) :
                BeginsWithPlanemoUpload(decodeArgs.descr[i])
                    => occursIn(inCommit(decodeArgs.descr[i]), decoded.self.commit)

\* C10 amended: with the option, the commit message is that of the body
\* without the lines whose first two space-separated words are "planemo" and
\* "upload"; without the option, these lines are in the commit message.
C10_PlanemoWordsStripped ==
    DecodedRecord =>
        IF decodeArgs.stripPlanemo
        THEN decoded.self.commit
                = commitOf(SelectSeq(decodeArgs.descr, NotPlanemoUploadWords))
        ELSE \A i \in 1..Len(decodeArgs.descr) :
                PlanemoUploadWords(decodeArgs.descr[i])
                    => occursIn(inCommit(decodeArgs.descr[i]), decoded.self.commit)

\* With the option, a body with a "planemo upload of tool" line and a line of
\* free text was decoded, and the commit message holds the free text alone.
C10_Witness ==
    /\ DecodedRecord
    /\ decodeArgs.stripPlanemo
    /\ \E i \in 1..Len(decodeArgs.descr) :
           decodeArgs.descr[i] = <<"planemo", " ", "upload", " ", "of", " ", "tool">>
    /\ decoded.self.commit = <<"Fixed", " ", "a", " ", "bug", ".">>

----------------------------------------------------------------------------
\* Properties of the script (under Spec).  Message i is the i-th message
\* fetched; its record is the object built from it, outcomes[i].repo.

recordOf(i) == outcomes[i].repo

\* The loop body ran to its end on message i.
Processed(i) == outcomes[i].branch \notin Exceptions

\* The constructor returned for message i.
Constructible(i) ==
    outcomes[i].branch \in {"passe", "new", "update", "else"}
    \/ (outcomes[i].branch = "IndexError" /\ "passe" \in DOMAIN recordOf(i))

\* The catalog's answer for message i marks the repo deleted, deprecated or
\* malicious.
FlaggedByCatalog(i) ==
    LET response == Messages[fetched[i]].response
    IN  /\ response.failure = ""
        /\ \/ response.data[1]["deleted"]
           \/ response.data[1]["deprecated"]
           \/ response.data[2]["malicious"]

subjectWords(i) == splitWords(recordOf(i).subject)

\* The word at index 3 of the subject of message i is w.
ClassifiedBy(i, w) == Len(subjectWords(i)) >= 4 /\ subjectWords(i)[4] = w

NewRecord(i) == Processed(i) /\ ~FlaggedByCatalog(i) /\ ClassifiedBy(i, <<"alert">>)

UpdateRecord(i) == Processed(i) /\ ~FlaggedByCatalog(i) /\ ClassifiedBy(i, <<"update">>)

tripleOf(r) == <<r.type, r.author, r.name>>

\* The <<type, author, name>> triples of a nested index, and what is stored
\* under one.
triplesOf(d) ==
    UNION {UNION {{<<d[t][1], d[t][2][a][1], d[t][2][a][2][n][1]>> :
                        n \in 1..Len(d[t][2][a][2])} :
                  a \in 1..Len(d[t][2])} :
           t \in 1..Len(d)}

storedUnder(d, tr) == get(get(get(d, tr[1]), tr[2]), tr[3])

\* No key twice, at any level of a nested index.
keysOnce(d) == \A i, j \in 1..Len(d) : d[i][1] = d[j][1] => i = j

WellFormedIndex(d) ==
    /\ keysOnce(d)
    /\ \A t \in 1..Len(d) :
        /\ keysOnce(d[t][2])
        /\ \A a \in 1..Len(d[t][2]) : keysOnce(d[t][2][a][2])

\* The records of the messages whose numbers are in S, in fetch order.
recordsOf(S) ==
    LET Chosen(o) == o.repo.msgNum \in S
        chosen == SelectSeq(outcomes, Chosen)
    IN  [k \in 1..Len(chosen) |-> chosen[k].repo]

\* The message numbers of the records stored in the three collections.
storedNew == {storedUnder(newToolRepos, tr).msgNum : tr \in triplesOf(newToolRepos)}
storedUpdates ==
    UNION {{storedUnder(updates, tr)[k].msgNum : k \in 1..Len(storedUnder(updates, tr))} :
           tr \in triplesOf(updates)}
storedPasse == {passe[k].msgNum : k \in 1..Len(passe)}

\* C1: a message whose sender is not the tool shed's gives no partly filled
\* record and does not abort the run: the loop goes on with the next message.
C1_MismatchedSenderSkipped ==
    \A i \in 1..Len(outcomes) :
        ("sender" \in DOMAIN recordOf(i) /\ recordOf(i).sender /= TOOLSHED_SENDER)
            => /\ outcomes[i].branch \notin Exceptions
               /\ pc /= "crashed"
               /\ DOMAIN recordOf(i) \subseteq {"msgNum"}

\* C2: the new-publication index holds, for every triple, exactly one record:
\* the first unflagged new-publication record with that triple, in fetch order.
C2_FirstNewKept ==
    \A news \in {{i \in 1..Len(outcomes) : NewRecord(i)}} :
        /\ WellFormedIndex(newToolRepos)
        /\ \A i \in news : tripleOf(recordOf(i)) \in triplesOf(newToolRepos)
        /\ \A tr \in triplesOf(newToolRepos) :
            LET same == {i \in news : tripleOf(recordOf(i)) = tr}
            IN  /\ same /= {}
                /\ storedUnder(newToolRepos, tr) = recordsOf(same)[1]

\* A flagged new-publication record, then two unflagged ones with its triple
\* were processed.
C2_Witness ==
    \E i, j, k \in 1..Len(outcomes) :
        /\ i < j /\ j < k
        /\ Processed(i) /\ FlaggedByCatalog(i) /\ ClassifiedBy(i, <<"alert">>)
        /\ NewRecord(j) /\ NewRecord(k)
        /\ tripleOf(recordOf(i)) = tripleOf(recordOf(j))
        /\ tripleOf(recordOf(j)) = tripleOf(recordOf(k))

\* C3: the list of updates under a triple is the list of the unflagged update
\* records with that triple, in fetch order.
C3_UpdatesInFetchOrder ==
    \A ups \in {{i \in 1..Len(outcomes) : UpdateRecord(i)}} :
        /\ WellFormedIndex(updates)
        /\ \A i \in ups : tripleOf(recordOf(i)) \in triplesOf(updates)
        /\ \A tr \in triplesOf(updates) :
            LET same == {i \in ups : tripleOf(recordOf(i)) = tr}
            IN  /\ same /= {}
                /\ storedUnder(updates, tr) = recordsOf(same)

\* Two updates of one repo were processed, with an update of another repo
\* between them.
C3_Witness ==
    /\ Len(outcomes) = 3
    /\ UpdateRecord(1) /\ UpdateRecord(2) /\ UpdateRecord(3)
    /\ tripleOf(recordOf(1)) = tripleOf(recordOf(3))
    /\ tripleOf(recordOf(1)) /= tripleOf(recordOf(2))

\* C4: passe is the list of the processed records the catalog flags, in fetch
\* order, and no flagged record is in newToolRepos or in updates.
C4_FlaggedGoToPasse ==
    LET flagged == {i \in 1..Len(outcomes) : Processed(i) /\ FlaggedByCatalog(i)}
    IN  /\ passe = recordsOf(flagged)
        /\ \A i \in storedNew \cup storedUpdates : ~FlaggedByCatalog(i)

\* A malicious new repo, a deprecated update and an unflagged update were
\* processed.
C4_Witness ==
    /\ Len(passe) = 2
    /\ Messages[fetched[passe[1].msgNum]].response.data[2]["malicious"]
    /\ ClassifiedBy(passe[1].msgNum, <<"alert">>)
    /\ Messages[fetched[passe[2].msgNum]].response.data[1]["deprecated"]
    /\ ClassifiedBy(passe[2].msgNum, <<"update">>)
    /\ storedUpdates /= {}

\* C5: every decoded record that reaches the classification is classified by
\* the word at index 3 of its subject: "alert" is new, "update" is update, and
\* any other subject is unrecognized.
C5_ClassifiedBySubject ==
    \A i \in 1..Len(outcomes) :
        (Constructible(i) /\ ~FlaggedByCatalog(i)) =>
            outcomes[i].branch =
                IF ClassifiedBy(i, <<"alert">>) THEN "new"
                ELSE IF ClassifiedBy(i, <<"update">>) THEN "update"
                ELSE "else"

\* The lookup was made for message i and failed.
LookupFailed(i) ==
    /\ "commit" \in DOMAIN recordOf(i)
    /\ Messages[fetched[i]].response.failure /= ""

\* C6: when the catalog lookup fails for a message, the run ends with that
\* failure: no section of the report is printed, and the record is in no
\* collection and has none of the catalog's fields.
C6_LookupFailureIsFatal ==
    \A i \in 1..Len(outcomes) :
        LookupFailed(i) =>
            /\ pc = "crashed"
            /\ i = Len(outcomes)
            /\ outcomes[i].branch = Messages[fetched[i]].response.failure
            /\ \A k \in 1..Len(stdout) : stdout[k] \notin SectionTitles
            /\ i \notin storedNew \cup storedUpdates \cup storedPasse
            /\ DOMAIN recordOf(i) \cap {"passe", "synopsis", "description", "type"} = {}

\* The lookup failed for the third message, after a new repo and an
\* unrecognized message.
C6_Witness ==
    /\ Len(outcomes) = 3
    /\ LookupFailed(3)
    /\ storedNew /= {}
    /\ stdout /= <<>>

\* The outcome o of a pass over Messages[k]: the constructor returned, the
\* catalog does not flag the repo, and the word at index 3 of the subject is
\* neither "alert" nor "update".
Unrecognized(o, k) ==
    /\ "passe" \in DOMAIN o.repo
    /\ Messages[k].response.failure = ""
    /\ ~Messages[k].response.data[1]["deleted"]
    /\ ~Messages[k].response.data[1]["deprecated"]
    /\ ~Messages[k].response.data[2]["malicious"]
    /\ Len(splitWords(o.repo.subject)) >= 4
    /\ splitWords(o.repo.subject)[4] \notin {<<"alert">>, <<"update">>}

====
